---- MODULE Spec2Model ----
(***************************************************************************)
(* HugoToJSON: the page index builder (src/page_index.rs), the two front   *)
(* matter parsers and the concurrent traversal (src/traverse/traverser.rs).*)
(* Text is a sequence of one-character strings.                            *)
(***************************************************************************)
EXTENDS Integers, Sequences, FiniteSets, TLC

(***************************************************************************)
(* Bounds of the model.                                                    *)
(***************************************************************************)
\* longest sequence of directory entries the walk yields
MaxEntries == 2
\* largest size of the thread pool (num_cpus::get() is at least 1)
MaxThreads == 2

(***************************************************************************)
(* Text primitives of the Rust standard library, as the code uses them.    *)
(***************************************************************************)
Some(v) == [some |-> TRUE, v |-> v]
None == [some |-> FALSE, v |-> <<>>]

\* char::is_whitespace, on the characters the documents are made of
IsWhitespace(c) == c \in {" ", "\n"}

RECURSIVE TrimStart(_)
TrimStart(s) ==
  IF s # <<>> /\ IsWhitespace(Head(s)) THEN TrimStart(Tail(s)) ELSE s

RECURSIVE TrimEnd(_)
TrimEnd(s) ==
  IF s # <<>> /\ IsWhitespace(s[Len(s)])
    THEN TrimEnd(SubSeq(s, 1, Len(s) - 1))
    ELSE s

\* str::trim
Trim(s) == TrimEnd(TrimStart(s))

\* position of the first occurrence of pat in s, 0 when there is none
IndexOf(s, pat) ==
  LET hits == {i \in 1..(Len(s) - Len(pat) + 1) :
                 SubSeq(s, i, i + Len(pat) - 1) = pat}
  IN IF hits = {} THEN 0 ELSE CHOOSE i \in hits : \A j \in hits : i <= j

\* str::split(pattern).collect(): non-overlapping matches, left to right;
\* a text without the pattern is its own single segment
RECURSIVE Split(_, _)
Split(s, pat) ==
  LET i == IndexOf(s, pat)
  IN IF i = 0
       THEN <<s>>
       ELSE <<SubSeq(s, 1, i - 1)>>
              \o Split(SubSeq(s, i + Len(pat), Len(s)), pat)

\* str::lines(): split on line feeds, a final empty line is not a line
Lines(s) ==
  LET parts == Split(s, <<"\n">>)
  IN IF parts[Len(parts)] = <<>>
       THEN SubSeq(parts, 1, Len(parts) - 1)
       ELSE parts

\* char::to_lowercase on the letters the documents are made of
LowerChar(c) ==
  CASE c = "A" -> "a"
    [] c = "B" -> "b"
    [] c = "E" -> "e"
    [] c = "M" -> "m"
    [] c = "T" -> "t"
    [] OTHER -> c

\* str::to_lowercase
ToLowercase(s) == [i \in 1..Len(s) |-> LowerChar(s[i])]

RECURSIVE Concat(_)
\* [a, b, ...].concat()
Concat(parts) ==
  IF parts = <<>> THEN <<>> ELSE Head(parts) \o Concat(Tail(parts))

(***************************************************************************)
(* crate::constants                                                        *)
(***************************************************************************)
EMPTY_STRING == <<>>
FORWARD_SLASH == <<"/">>
TOML_FENCE == <<"+", "+", "+">>
YAML_FENCE == <<"-", "-", "-">>
MARKDOWN_EXTENSION == <<"m", "d">>
TITLE == <<"t", "i", "t", "l", "e">>
SLUG == <<"s", "l", "u", "g">>
DATE == <<"d", "a", "t", "e">>
DESCRIPTION == <<"d", "e", "s", "c", "r", "i", "p", "t", "i", "o", "n">>
URL == <<"u", "r", "l">>
DRAFT == <<"d", "r", "a", "f", "t">>
CATEGORIES == <<"c", "a", "t", "e", "g", "o", "r", "i", "e", "s">>
SERIES == <<"s", "e", "r", "i", "e", "s">>
TAGS == <<"t", "a", "g", "s">>
KEYWORDS == <<"k", "e", "y", "w", "o", "r", "d", "s">>

(***************************************************************************)
(* The metadata parsers (the toml and yaml_rust crates): text to a tree of *)
(* key/value pairs, or an error.  One `key SEP value` pair per line; a     *)
(* value is true, false, a number, a quoted string, an array of scalars    *)
(* and, in YAML only, a plain unquoted string.                             *)
(***************************************************************************)
StrVal(s) == [t |-> "str", s |-> s, b |-> FALSE, a |-> <<>>]
BoolVal(b) == [t |-> "bool", s |-> <<>>, b |-> b, a |-> <<>>]
IntVal == [t |-> "int", s |-> <<>>, b |-> FALSE, a |-> <<>>]
ArrVal(a) == [t |-> "arr", s |-> <<>>, b |-> FALSE, a |-> a]
ErrVal == [t |-> "err", s |-> <<>>, b |-> FALSE, a |-> <<>>]
NoVal == [t |-> "none", s |-> <<>>, b |-> FALSE, a |-> <<>>]

Digits == {"0", "1", "2", "7", "9"}
Special == {"'", "[", "]", ",", "=", ":"}

ParseScalar(v, yaml) ==
  CASE v = <<"t", "r", "u", "e">> -> BoolVal(TRUE)
    [] v = <<"f", "a", "l", "s", "e">> -> BoolVal(FALSE)
    [] v # <<>> /\ (\A i \in 1..Len(v) : v[i] \in Digits) -> IntVal
    [] Len(v) >= 2 /\ v[1] = "'" /\ v[Len(v)] = "'"
         /\ (\A i \in 2..(Len(v) - 1) : v[i] # "'" /\ v[i] # "\n")
         -> StrVal(SubSeq(v, 2, Len(v) - 1))
    [] yaml /\ v # <<>> /\ (\A i \in 1..Len(v) : v[i] \notin Special)
         -> StrVal(v)
    [] OTHER -> ErrVal

ParseValue(v, yaml) ==
  IF Len(v) >= 2 /\ v[1] = "[" /\ v[Len(v)] = "]"
    THEN LET inner == SubSeq(v, 2, Len(v) - 1)
             parts == IF Trim(inner) = <<>> THEN <<>> ELSE Split(inner, <<",">>)
             elems == [i \in 1..Len(parts) |-> ParseScalar(Trim(parts[i]), yaml)]
         IN IF \E i \in 1..Len(elems) : elems[i].t = "err"
              THEN ErrVal
              ELSE ArrVal(elems)
    ELSE ParseScalar(v, yaml)

EmptyTree == [k \in {} |-> NoVal]

IsKey(k) ==
  k # <<>> /\ \A i \in 1..Len(k) : ~IsWhitespace(k[i]) /\ k[i] \notin Special

\* the pairs of the lines, in order; a repeated key is an error in TOML and
\* the later pair wins in YAML
RECURSIVE ParsePairs(_, _, _, _)
ParsePairs(lines, sep, yaml, tree) ==
  IF lines = <<>>
    THEN [ok |-> TRUE, tree |-> tree]
    ELSE LET line == Trim(Head(lines))
             i == IndexOf(line, sep)
             key == Trim(SubSeq(line, 1, i - 1))
             val == ParseValue(Trim(SubSeq(line, i + 1, Len(line))), yaml)
         IN IF line = <<>>
              THEN ParsePairs(Tail(lines), sep, yaml, tree)
              ELSE IF i = 0 \/ ~IsKey(key) \/ val.t = "err"
                        \/ (~yaml /\ key \in DOMAIN tree)
                     THEN [ok |-> FALSE, tree |-> EmptyTree]
                     ELSE ParsePairs(Tail(lines), sep, yaml,
                            [k \in DOMAIN tree \cup {key} |->
                               IF k = key THEN val ELSE tree[k]])

\* str::parse::<toml::Value>(): the empty text is the empty table
ParseToml(text) == ParsePairs(Split(text, <<"\n">>), <<"=">>, FALSE, EmptyTree)

\* YamlLoader::load_from_str followed by .first(): the empty text parses to
\* no document at all
ParseYaml(text) ==
  IF Trim(text) = <<>>
    THEN [ok |-> FALSE, tree |-> EmptyTree]
    ELSE ParsePairs(Split(text, <<"\n">>), <<":">>, TRUE, EmptyTree)

\* Value::get / Yaml::index: the value under a key, if there is one
Get(tree, key) == IF key \in DOMAIN tree THEN tree[key] ELSE NoVal

\* Value::as_bool / Yaml::as_bool
AsBool(val) == IF val.t = "bool" THEN [some |-> TRUE, v |-> val.b]
                                 ELSE [some |-> FALSE, v |-> FALSE]

\* Value::as_str / Yaml::as_str
AsStr(val) == IF val.t = "str" THEN Some(val.s) ELSE None

\* Value::as_array / Yaml::as_vec, with .unwrap_or(&Vec::new())
AsArrayOrEmpty(val) == IF val.t = "arr" THEN val.a ELSE <<>>

\* .iter().filter_map(|v| v.as_str().map(|s| s.trim().to_owned())).collect()
RECURSIVE TrimmedStrings(_)
TrimmedStrings(arr) ==
  IF arr = <<>>
    THEN <<>>
    ELSE (IF Head(arr).t = "str" THEN <<Trim(Head(arr).s)>> ELSE <<>>)
           \o TrimmedStrings(Tail(arr))

\* strip_markdown: the text without its markup characters
MarkupChars == {"#", "*"}

RECURSIVE strip_markdown(_)
strip_markdown(text) ==
  IF text = <<>>
    THEN <<>>
    ELSE (IF Head(text) \in MarkupChars THEN <<>> ELSE <<Head(text)>>)
           \o strip_markdown(Tail(text))

(***************************************************************************)
(* OperationResult and PageIndex (src/page_index.rs).                      *)
(***************************************************************************)
NoPage ==
  [title |-> <<>>, href |-> <<>>, date |-> <<>>, content |-> <<>>,
   description |-> <<>>, categories |-> <<>>, series |-> <<>>,
   tags |-> <<>>, keywords |-> <<>>, draft |-> FALSE]

Ok(page) == [kind |-> "Success", page |-> page, reason |-> ""]
ParseError(reason) == [kind |-> "ParseError", page |-> NoPage, reason |-> reason]
PathError(reason) == [kind |-> "PathError", page |-> NoPage, reason |-> reason]
IoError(reason) == [kind |-> "IoError", page |-> NoPage, reason |-> reason]
Skip(reason) == [kind |-> "Skip", page |-> NoPage, reason |-> reason]

\* a build_href that lowercases the slug as it does the file stem
build_href_lowercasing_slug(possible_slug, possible_url, file_location) ==
  IF possible_url.some
    THEN possible_url.v
    ELSE LET relative_part ==
               IF file_location.relative_directory_to_content = <<>>
                 THEN EMPTY_STRING
                 ELSE Concat(<<FORWARD_SLASH,
                               file_location.relative_directory_to_content>>)
             name == IF possible_slug.some THEN possible_slug.v
                                           ELSE file_location.file_stem
         IN Concat(<<relative_part, FORWARD_SLASH, ToLowercase(name),
                     FORWARD_SLASH>>)

build_href(possible_slug, possible_url, file_location) ==
  IF possible_url.some
    THEN possible_url.v
    ELSE LET relative_part ==
               IF file_location.relative_directory_to_content = <<>>
                 THEN EMPTY_STRING
                 ELSE Concat(<<FORWARD_SLASH,
                               file_location.relative_directory_to_content>>)
         IN IF possible_slug.some
              THEN Concat(<<relative_part, FORWARD_SLASH, possible_slug.v,
                            FORWARD_SLASH>>)
              ELSE Concat(<<relative_part, FORWARD_SLASH,
                            ToLowercase(file_location.file_stem),
                            FORWARD_SLASH>>)

\* a PageIndex::new that takes an absent title for the empty title
PageIndexNewDefaultTitle(title, slug, date, description, categories, series, tags, keywords, content, file_location, url, draft) ==
  IF ~date.some
    THEN ParseError("Could not read date from front matter")
    ELSE Ok([title |-> IF title.some THEN Trim(title.v) ELSE <<>>,
             date |-> Trim(date.v),
             description |-> IF description.some THEN description.v ELSE <<>>,
             categories |-> categories,
             tags |-> tags,
             series |-> series,
             keywords |-> keywords,
             href |-> build_href(slug, url, file_location),
             content |-> content,
             draft |-> draft])

\* PageIndex::new
PageIndexNew(title, slug, date, description, categories, series, tags, keywords, content, file_location, url, draft) ==
  IF ~title.some
    THEN ParseError("Could not read title from front matter")
    ELSE IF ~date.some
      THEN ParseError("Could not read date from front matter")
      ELSE Ok([title |-> Trim(title.v),
               date |-> Trim(date.v),
               description |-> IF description.some THEN description.v ELSE <<>>,
               categories |-> categories,
               tags |-> tags,
               series |-> series,
               keywords |-> keywords,
               href |-> build_href(slug, url, file_location),
               content |-> content,
               draft |-> draft])

(***************************************************************************)
(* The per-file pipeline (src/traverse/traverser.rs).                      *)
(***************************************************************************)
\* a TOML parser that takes the segment after the first fence for the
\* metadata, as the YAML parser does
process_md_toml_front_matter_second_segment(contents, file_location, drafts) ==
  LET split_content == Split(Trim(contents), TOML_FENCE)
      length == Len(split_content)
      parsed == ParseToml(Trim(split_content[2]))
      front_matter == parsed.tree
      draft == AsBool(Get(front_matter, DRAFT))
      is_draft == IF draft.some THEN draft.v ELSE FALSE
  IN IF length <= 1
       THEN ParseError("Could not split on TOML fence.")
       ELSE IF ~parsed.ok
         THEN ParseError("Could not parse TOML front matter.")
         ELSE IF is_draft /\ ~drafts
           THEN Skip("Is draft.")
           ELSE PageIndexNew(
                  AsStr(Get(front_matter, TITLE)),
                  AsStr(Get(front_matter, SLUG)),
                  AsStr(Get(front_matter, DATE)),
                  AsStr(Get(front_matter, DESCRIPTION)),
                  TrimmedStrings(AsArrayOrEmpty(Get(front_matter, CATEGORIES))),
                  TrimmedStrings(AsArrayOrEmpty(Get(front_matter, SERIES))),
                  TrimmedStrings(AsArrayOrEmpty(Get(front_matter, TAGS))),
                  TrimmedStrings(AsArrayOrEmpty(Get(front_matter, KEYWORDS))),
                  strip_markdown(Trim(split_content[length])),
                  file_location,
                  AsStr(Get(front_matter, URL)),
                  is_draft)

process_md_toml_front_matter(contents, file_location, drafts) ==
  LET split_content == Split(Trim(contents), TOML_FENCE)
      length == Len(split_content)
      parsed == ParseToml(Trim(split_content[length - 1]))
      front_matter == parsed.tree
      draft == AsBool(Get(front_matter, DRAFT))
      is_draft == IF draft.some THEN draft.v ELSE FALSE
  IN IF length <= 1
       THEN ParseError("Could not split on TOML fence.")
       ELSE IF ~parsed.ok
         THEN ParseError("Could not parse TOML front matter.")
         ELSE IF is_draft /\ ~drafts
           THEN Skip("Is draft.")
           ELSE PageIndexNew(
                  AsStr(Get(front_matter, TITLE)),
                  AsStr(Get(front_matter, SLUG)),
                  AsStr(Get(front_matter, DATE)),
                  AsStr(Get(front_matter, DESCRIPTION)),
                  TrimmedStrings(AsArrayOrEmpty(Get(front_matter, CATEGORIES))),
                  TrimmedStrings(AsArrayOrEmpty(Get(front_matter, SERIES))),
                  TrimmedStrings(AsArrayOrEmpty(Get(front_matter, TAGS))),
                  TrimmedStrings(AsArrayOrEmpty(Get(front_matter, KEYWORDS))),
                  strip_markdown(Trim(split_content[length])),
                  file_location,
                  AsStr(Get(front_matter, URL)),
                  is_draft)

\* a YAML parser that builds the page before it looks at the draft flag
process_md_yaml_front_matter_draft_last(contents, file_location, drafts) ==
  LET split_content == Split(Trim(contents), YAML_FENCE)
      length == Len(split_content)
      parsed == ParseYaml(Trim(split_content[2]))
      front_matter == parsed.tree
      draft == AsBool(Get(front_matter, DRAFT))
      is_draft == IF draft.some THEN draft.v ELSE FALSE
      built == PageIndexNew(
                 AsStr(Get(front_matter, TITLE)),
                 AsStr(Get(front_matter, SLUG)),
                 AsStr(Get(front_matter, DATE)),
                 AsStr(Get(front_matter, DESCRIPTION)),
                 TrimmedStrings(AsArrayOrEmpty(Get(front_matter, CATEGORIES))),
                 TrimmedStrings(AsArrayOrEmpty(Get(front_matter, SERIES))),
                 TrimmedStrings(AsArrayOrEmpty(Get(front_matter, TAGS))),
                 TrimmedStrings(AsArrayOrEmpty(Get(front_matter, KEYWORDS))),
                 strip_markdown(Trim(split_content[length])),
                 file_location,
                 AsStr(Get(front_matter, URL)),
                 is_draft)
  IN IF length <= 1
       THEN ParseError("Could not split on YAML fence.")
       ELSE IF ~parsed.ok
         THEN ParseError("Could not parse YAML front matter.")
         ELSE IF built.kind # "Success"
           THEN built
           ELSE IF is_draft /\ ~drafts THEN Skip("Is draft.") ELSE built

process_md_yaml_front_matter(contents, file_location, drafts) ==
  LET split_content == Split(Trim(contents), YAML_FENCE)
      length == Len(split_content)
      parsed == ParseYaml(Trim(split_content[2]))
      front_matter == parsed.tree
      draft == AsBool(Get(front_matter, DRAFT))
      is_draft == IF draft.some THEN draft.v ELSE FALSE
  IN IF length <= 1
       THEN ParseError("Could not split on YAML fence.")
       ELSE IF ~parsed.ok
         THEN ParseError("Could not parse YAML front matter.")
         ELSE IF is_draft /\ ~drafts
           THEN Skip("Is draft.")
           ELSE PageIndexNew(
                  AsStr(Get(front_matter, TITLE)),
                  AsStr(Get(front_matter, SLUG)),
                  AsStr(Get(front_matter, DATE)),
                  AsStr(Get(front_matter, DESCRIPTION)),
                  TrimmedStrings(AsArrayOrEmpty(Get(front_matter, CATEGORIES))),
                  TrimmedStrings(AsArrayOrEmpty(Get(front_matter, SERIES))),
                  TrimmedStrings(AsArrayOrEmpty(Get(front_matter, TAGS))),
                  TrimmedStrings(AsArrayOrEmpty(Get(front_matter, KEYWORDS))),
                  strip_markdown(Trim(split_content[length])),
                  file_location,
                  AsStr(Get(front_matter, URL)),
                  is_draft)

\* a process_md_file that looks at the first line, blank or not
process_md_file_first_line(file, file_location, drafts) ==
  IF ~file.readable
    THEN IoError("read_to_string failed")
    ELSE LET contents == file.contents
             lines == Lines(contents)
             first_line == IF lines = <<>> THEN <<>> ELSE lines[1]
         IN IF first_line # <<>> /\ first_line[1] = "+"
              THEN process_md_toml_front_matter(contents, file_location, drafts)
              ELSE IF first_line # <<>> /\ first_line[1] = "-"
                THEN process_md_yaml_front_matter(contents, file_location, drafts)
                ELSE ParseError("Could not determine file front matter type.")

\* a file of the content tree: fs::read_to_string fails when it is unreadable
process_md_file(file, file_location, drafts) ==
  IF ~file.readable
    THEN IoError("read_to_string failed")
    ELSE LET contents == file.contents
             lines == Lines(contents)
             nonblank == {i \in 1..Len(lines) : Trim(lines[i]) # <<>>}
             first_line ==
               IF nonblank = {}
                 THEN <<>>
                 ELSE lines[CHOOSE i \in nonblank : \A j \in nonblank : i <= j]
         IN IF first_line # <<>> /\ first_line[1] = "+"
              THEN process_md_toml_front_matter(contents, file_location, drafts)
              ELSE IF first_line # <<>> /\ first_line[1] = "-"
                THEN process_md_yaml_front_matter(contents, file_location, drafts)
                ELSE ParseError("Could not determine file front matter type.")

process_file(file, file_location, drafts) ==
  IF file_location.extension = MARKDOWN_EXTENSION
    THEN process_md_file(file, file_location, drafts)
    ELSE PathError("Not a compatible file extension.")

(***************************************************************************)
(* Documents and directory entries the runs are made of.                   *)
(***************************************************************************)
NL == <<"\n">>
Quoted(text) == <<"'">> \o text \o <<"'">>
TomlPair(key, value) == key \o <<" ", "=", " ">> \o value \o NL
YamlPair(key, value) == key \o <<":", " ">> \o value \o NL
TrueLit == <<"t", "r", "u", "e">>
FalseLit == <<"f", "a", "l", "s", "e">>

TextTitle == <<"A", "b">>
TextDate == <<"1", "9">>
TextSlug == <<"M", "y", "-", "B">>
TextUrl == <<"d", "/", "T", "/">>
TextBody == <<"#", "B", "o", "*">>

\* a complete TOML document: title, date, slug and a body
DocToml ==
  NL \o TOML_FENCE \o NL
     \o TomlPair(DATE, Quoted(TextDate))
     \o TomlPair(DRAFT, FalseLit)
     \o TomlPair(TITLE, Quoted(TextTitle))
     \o TomlPair(SLUG, Quoted(TextSlug))
     \o TOML_FENCE \o NL \o NL \o TextBody \o NL

\* a complete YAML document marked draft
DocYamlDraft ==
  NL \o YAML_FENCE \o NL
     \o YamlPair(DRAFT, TrueLit)
     \o YamlPair(TITLE, TextTitle)
     \o YamlPair(DATE, Quoted(TextDate))
     \o YAML_FENCE \o NL \o TextBody \o NL

\* a TOML document without a title
DocTomlNoTitle ==
  NL \o TOML_FENCE \o NL
     \o TomlPair(DATE, Quoted(TextDate))
     \o TOML_FENCE \o NL \o TextBody \o NL

Location(ext, dir, stem) ==
  [extension |-> ext, relative_directory_to_content |-> dir, file_stem |-> stem]

LocPost == Location(MARKDOWN_EXTENSION, <<"p">>, <<"E", "x">>)
LocRoot == Location(MARKDOWN_EXTENSION, <<>>, <<"a">>)
LocText == Location(<<"t", "x", "t">>, <<"p">>, <<"a">>)

File(readable, contents) == [readable |-> readable, contents |-> contents]

\* what the directory walk yields for one entry: an error of the walk, an
\* entry FileLocation::new cannot resolve, or a file with its location
WalkErr ==
  [ok |-> FALSE, resolves |-> FALSE, loc |-> LocText, file |-> File(FALSE, <<>>)]
Unresolved ==
  [ok |-> TRUE, resolves |-> FALSE, loc |-> LocText, file |-> File(FALSE, <<>>)]
Resolved(loc, file) ==
  [ok |-> TRUE, resolves |-> TRUE, loc |-> loc, file |-> file]

\* the content tree: what the walk finds under each path
Paths ==
  {"post/Ex.md", "a.md", "post/untitled.md", "locked.md", "post/a.txt",
   "escaping", "vanished"}

DirEntry(path) ==
  CASE path = "post/Ex.md" -> Resolved(LocPost, File(TRUE, DocToml))
    [] path = "a.md" -> Resolved(LocRoot, File(TRUE, DocYamlDraft))
    [] path = "post/untitled.md" -> Resolved(LocPost, File(TRUE, DocTomlNoTitle))
    [] path = "locked.md" -> Resolved(LocRoot, File(FALSE, <<>>))
    [] path = "post/a.txt" -> Resolved(LocText, File(TRUE, TextBody))
    [] path = "escaping" -> Unresolved
    [] OTHER -> WalkErr

\* the walks of at most n entries: no path comes twice
RECURSIVE Walks(_, _)
Walks(S, n) ==
  IF n = 0
    THEN {<<>>}
    ELSE LET shorter == Walks(S, n - 1)
         IN shorter \cup
              UNION {{Append(q, e) : e \in {x \in S : \A k \in 1..Len(q) : q[k] # x}}
                       : q \in shorter}

(***************************************************************************)
(* Traverser::traverse_files: the orchestrator, the thread pool and the    *)
(* channel.                                                                *)
(***************************************************************************)
VARIABLES
  contents_directory_exists, \* fs::metadata of the content root succeeds
  drafts,                    \* Traverser.drafts
  entries,                   \* what WalkDir yields, in order
  thread_count,              \* num_cpus::get()
  pc,                        \* position of traverse_files
  next_entry,                \* position of the walk in entries
  senders,                   \* live Sender handles: tx and its clones
  queue,                     \* jobs handed to the pool, not yet taken
  workers,                   \* the pool's threads
  channel,                   \* outcomes sent and not yet received
  received,                  \* every outcome the drain loop has matched on
  index,                     \* the Vec traverse_files builds
  returned,                  \* the return value
  call,                      \* a direct call of one of the pure functions
  ret                        \* and its return value

vars ==
  <<contents_directory_exists, drafts, entries, thread_count, pc, next_entry,
    senders, queue, workers, channel, received, index, returned, call, ret>>

traverse_vars ==
  <<contents_directory_exists, drafts, entries, thread_count, pc, next_entry,
    senders, queue, workers, channel, received, index, returned>>

MarkdownKinds == {"Success", "ParseError", "IoError", "Skip"}

Idle == [state |-> "idle", job |-> 0]
NoCall == [fn |-> "none"]
NoRet == [done |-> FALSE, out |-> ParseError("")]

Threads == 1..thread_count

Init ==
  /\ contents_directory_exists \in BOOLEAN
  /\ drafts \in BOOLEAN
  /\ entries \in Walks(Paths, MaxEntries)
  /\ thread_count \in 1..MaxThreads
  /\ pc = "start"
  /\ next_entry = 1
  /\ senders = 0
  /\ queue = <<>>
  /\ workers = [w \in Threads |-> Idle]
  /\ channel = <<>>
  /\ received = <<>>
  /\ index = <<>>
  /\ returned = "none"
  /\ call = NoCall
  /\ ret = NoRet

\* ThreadPool::new(thread_count) and channel(): one Sender, tx
Setup ==
  /\ pc = "start"
  /\ senders' = 1
  /\ pc' = "metadata"
  /\ UNCHANGED <<contents_directory_exists, drafts, entries, thread_count,
                 next_entry, queue, workers, channel, received, index,
                 returned, call, ret>>

\* the result of fs::metadata is ignored
CheckRootIgnored ==
  /\ pc = "metadata"
  /\ pc' = "walk"
  /\ UNCHANGED <<contents_directory_exists, drafts, entries, thread_count,
                 next_entry, senders, queue, workers, channel, received,
                 index, returned, call, ret>>

\* fs::metadata(&self.contents_directory_path)?  The early return drops tx,
\* rx and the pool
CheckRoot ==
  /\ pc = "metadata"
  /\ IF contents_directory_exists
       THEN /\ pc' = "walk"
            /\ UNCHANGED <<senders, returned>>
       ELSE /\ pc' = "done"
            /\ senders' = senders - 1
            /\ returned' = "Err"
  /\ UNCHANGED <<contents_directory_exists, drafts, entries, thread_count,
                 next_entry, queue, workers, channel, received, index,
                 call, ret>>

\* a walk that hands an entry to the pool only while a thread is free
WalkEntryWhenThreadFree ==
  /\ pc = "walk"
  /\ next_entry <= Len(entries)
  /\ LET entry == DirEntry(entries[next_entry])
     IN IF entry.ok /\ entry.resolves
             /\ Len(queue) + Cardinality({w \in Threads : workers[w].state # "idle"})
                  < thread_count
          THEN /\ senders' = senders + 1
               /\ queue' = Append(queue, next_entry)
          ELSE UNCHANGED <<senders, queue>>
  /\ next_entry' = next_entry + 1
  /\ UNCHANGED <<contents_directory_exists, drafts, entries, thread_count,
                 pc, workers, channel, received, index, returned, call, ret>>

\* one turn of the for loop over WalkDir: an entry that resolves is handed to
\* the pool with a clone of tx, any other entry is passed over
WalkEntry ==
  /\ pc = "walk"
  /\ next_entry <= Len(entries)
  /\ LET entry == DirEntry(entries[next_entry])
     IN IF entry.ok /\ entry.resolves
          THEN /\ senders' = senders + 1
               /\ queue' = Append(queue, next_entry)
          ELSE UNCHANGED <<senders, queue>>
  /\ next_entry' = next_entry + 1
  /\ UNCHANGED <<contents_directory_exists, drafts, entries, thread_count,
                 pc, workers, channel, received, index, returned, call, ret>>

\* the walk is over, and tx is kept alive
DropTxForgotten ==
  /\ pc = "walk"
  /\ next_entry > Len(entries)
  /\ senders' = senders
  /\ pc' = "drain"
  /\ UNCHANGED <<contents_directory_exists, drafts, entries, thread_count,
                 next_entry, queue, workers, channel, received, index,
                 returned, call, ret>>

\* the walk is over: drop(tx)
DropTx ==
  /\ pc = "walk"
  /\ next_entry > Len(entries)
  /\ senders' = senders - 1
  /\ pc' = "drain"
  /\ UNCHANGED <<contents_directory_exists, drafts, entries, thread_count,
                 next_entry, queue, workers, channel, received, index,
                 returned, call, ret>>

\* a match that pushes the Skips as well
RetainedWithSkips(result) == result.out.kind \in MarkdownKinds \cup {"PathError"}

\* the match of the drain loop: a Skip is logged only, anything else is
\* pushed
Retained(result) == result.out.kind # "Skip"

\* for result in rx: one outcome is received and matched
DrainOne ==
  /\ pc = "drain"
  /\ channel # <<>>
  /\ LET result == Head(channel)
     IN /\ received' = Append(received, result)
        /\ index' = IF Retained(result) THEN Append(index, result) ELSE index
  /\ channel' = Tail(channel)
  /\ UNCHANGED <<contents_directory_exists, drafts, entries, thread_count,
                 pc, next_entry, senders, queue, workers, returned, call, ret>>

\* a drain loop that stops at the first moment the channel is empty
DrainEndWhenEmpty ==
  /\ pc = "drain"
  /\ channel = <<>>
  /\ pc' = "join"
  /\ UNCHANGED <<contents_directory_exists, drafts, entries, thread_count,
                 next_entry, senders, queue, workers, channel, received,
                 index, returned, call, ret>>

\* for result in rx: the channel is empty and every Sender is dropped
DrainEnd ==
  /\ pc = "drain"
  /\ channel = <<>>
  /\ senders = 0
  /\ pc' = "join"
  /\ UNCHANGED <<contents_directory_exists, drafts, entries, thread_count,
                 next_entry, senders, queue, workers, channel, received,
                 index, returned, call, ret>>

\* pool.join() returns when no job is queued or active; then Ok(index)
JoinAndReturn ==
  /\ pc = "join"
  /\ queue = <<>>
  /\ \A w \in Threads : workers[w].state = "idle"
  /\ pc' = "done"
  /\ returned' = "Ok"
  /\ UNCHANGED <<contents_directory_exists, drafts, entries, thread_count,
                 next_entry, senders, queue, workers, channel, received,
                 index, call, ret>>

\* a thread of the pool takes the oldest queued job
WorkerTake(w) ==
  /\ w \in Threads
  /\ workers[w].state = "idle"
  /\ queue # <<>>
  /\ workers' = [workers EXCEPT ![w] = [state |-> "running", job |-> Head(queue)]]
  /\ queue' = Tail(queue)
  /\ UNCHANGED <<contents_directory_exists, drafts, entries, thread_count,
                 pc, next_entry, senders, channel, received, index,
                 returned, call, ret>>

\* a pool that gives up its queued jobs when a job fails
WorkerSendFailFast(w) ==
  /\ w \in Threads
  /\ workers[w].state = "running"
  /\ LET job == workers[w].job
         process_result == process_file(DirEntry(entries[job]).file, DirEntry(entries[job]).loc, drafts)
     IN /\ channel' = Append(channel, [id |-> job, out |-> process_result])
        /\ queue' = IF process_result.kind = "Success" THEN queue ELSE <<>>
        /\ senders' = IF process_result.kind = "Success"
                        THEN senders
                        ELSE senders - Len(queue)
  /\ workers' = [workers EXCEPT ![w].state = "sent"]
  /\ UNCHANGED <<contents_directory_exists, drafts, entries, thread_count,
                 pc, next_entry, received, index, returned, call, ret>>

\* the closure: process_file and thread_tx.send(process_result)
WorkerSend(w) ==
  /\ w \in Threads
  /\ workers[w].state = "running"
  /\ LET job == workers[w].job
         process_result == process_file(DirEntry(entries[job]).file, DirEntry(entries[job]).loc, drafts)
     IN channel' = Append(channel, [id |-> job, out |-> process_result])
  /\ workers' = [workers EXCEPT ![w].state = "sent"]
  /\ UNCHANGED <<contents_directory_exists, drafts, entries, thread_count,
                 pc, next_entry, senders, queue, received, index,
                 returned, call, ret>>

\* the closure ends: thread_tx is dropped and the thread is free again
WorkerFinish(w) ==
  /\ w \in Threads
  /\ workers[w].state = "sent"
  /\ senders' = senders - 1
  /\ workers' = [workers EXCEPT ![w] = Idle]
  /\ UNCHANGED <<contents_directory_exists, drafts, entries, thread_count,
                 pc, next_entry, queue, channel, received, index,
                 returned, call, ret>>

Next ==
  \/ Setup
  \/ CheckRoot
  \/ WalkEntry
  \/ DropTx
  \/ DrainOne
  \/ DrainEnd
  \/ JoinAndReturn
  \/ \E w \in Threads : WorkerTake(w)
  \/ \E w \in Threads : WorkerSend(w)
  \/ \E w \in Threads : WorkerFinish(w)

Spec == Init /\ [][Next]_vars

\* the thread of traverse_files and the threads of the pool all keep
\* running.  WorkerSend(w) is enabled exactly while thread w is running a
\* job and ends that, so its weak fairness is the last conjunct
FairSpec ==
  /\ Spec
  /\ WF_vars(Setup) /\ WF_vars(CheckRoot) /\ WF_vars(WalkEntry)
  /\ WF_vars(DropTx) /\ WF_vars(DrainOne) /\ WF_vars(DrainEnd)
  /\ WF_vars(JoinAndReturn)
  /\ \A w \in 1..MaxThreads : WF_vars(WorkerTake(w)) /\ WF_vars(WorkerFinish(w))
  /\ \A w \in 1..MaxThreads :
       []<>(~(w \in Threads /\ workers[w].state = "running"))

(***************************************************************************)
(* Direct calls of PageIndex::new and of the two front matter parsers, as  *)
(* the unit tests of the repository make them.                             *)
(***************************************************************************)
OptTexts(texts) == {None} \cup {Some(t) : t \in texts}

BuildCalls ==
  [fn : {"PageIndex::new"},
   title : OptTexts({TextTitle, <<" ", "T", " ">>, <<" ">>, <<>>}),
   slug : OptTexts({TextSlug}),
   date : OptTexts({TextDate, <<" ", "\n">>}),
   description : OptTexts({<<"d">>}),
   url : OptTexts({TextUrl}),
   file_location : {LocPost, LocRoot},
   draft : BOOLEAN]

\* the texts a metadata block gives a field: none, or one pair
FieldTexts(key, values, yaml) ==
  {<<>>} \cup {IF yaml THEN YamlPair(key, v) ELSE TomlPair(key, v) : v \in values}

MetaBlocks(yaml) ==
  {Concat(<<dr, ti, da, tg>>) :
     dr \in FieldTexts(DRAFT, {TrueLit, FalseLit}, yaml),
     ti \in FieldTexts(TITLE, {Quoted(TextTitle), Quoted(<<" ">>), <<"7">>}, yaml),
     da \in FieldTexts(DATE, {Quoted(TextDate)}, yaml),
     tg \in FieldTexts(TAGS,
              {<<"[", "'", "a", "'", ",", " ", "7", ",", " ", "'", " ", "b",
                 " ", "'", ",", " ", "'", " ", "'", "]">>}, yaml)}
    \cup {TITLE \o NL, <<"'">>}

Bodies(fence) == {<<>>, TextBody, TextBody \o fence \o TextBody}

\* a document: an opening fence, a metadata block, and either nothing more
\* or a closing fence and a body
Documents(fence, yaml) ==
  {NL \o fence \o NL \o meta : meta \in MetaBlocks(yaml)}
    \cup {NL \o fence \o NL \o meta \o fence \o NL \o body \o NL :
            meta \in MetaBlocks(yaml), body \in Bodies(fence)}
    \cup {<<>>, TextBody}

ParseCalls ==
  [fn : {"process_md_toml_front_matter"},
   contents : Documents(TOML_FENCE, FALSE),
   file_location : {LocPost},
   drafts : BOOLEAN]
    \cup
  [fn : {"process_md_yaml_front_matter"},
   contents : Documents(YAML_FENCE, TRUE),
   file_location : {LocPost},
   drafts : BOOLEAN]

\* the files process_md_file is given: unreadable, of either dialect, with
\* the fence indented or after blank lines, without a fence, blank, empty
MdFiles ==
  {File(FALSE, <<>>)}
    \cup {File(TRUE, c) : c \in Documents(TOML_FENCE, FALSE) \cup Documents(YAML_FENCE, TRUE)}
    \cup {File(TRUE, <<" ">> \o fence \o NL \o TomlPair(TITLE, Quoted(TextTitle)) \o fence) :
             fence \in {TOML_FENCE, YAML_FENCE}}
    \cup {File(TRUE, <<" ", "\n", "\n">> \o DocToml),
          File(TRUE, <<" ", "\n">>),
          File(TRUE, TextBody \o NL \o DocToml)}

FileCalls ==
  [fn : {"process_md_file"},
   file : MdFiles,
   file_location : {LocPost},
   drafts : BOOLEAN]

InitCalls ==
  /\ call \in BuildCalls \cup ParseCalls \cup FileCalls
  /\ ret = NoRet
  /\ contents_directory_exists = FALSE
  /\ drafts = FALSE
  /\ entries = <<>>
  /\ thread_count = 1
  /\ pc = "none"
  /\ next_entry = 1
  /\ senders = 0
  /\ queue = <<>>
  /\ workers = [w \in Threads |-> Idle]
  /\ channel = <<>>
  /\ received = <<>>
  /\ index = <<>>
  /\ returned = "none"

CallPageIndexNew ==
  /\ call.fn = "PageIndex::new"
  /\ ~ret.done
  /\ ret' = [done |-> TRUE,
             out |-> PageIndexNew(call.title, call.slug, call.date,
                       call.description, <<>>, <<>>, <<>>, <<>>, TextBody,
                       call.file_location, call.url, call.draft)]
  /\ UNCHANGED <<traverse_vars, call>>

CallToml ==
  /\ call.fn = "process_md_toml_front_matter"
  /\ ~ret.done
  /\ ret' = [done |-> TRUE,
             out |-> process_md_toml_front_matter(call.contents,
                       call.file_location, call.drafts)]
  /\ UNCHANGED <<traverse_vars, call>>

CallYaml ==
  /\ call.fn = "process_md_yaml_front_matter"
  /\ ~ret.done
  /\ ret' = [done |-> TRUE,
             out |-> process_md_yaml_front_matter(call.contents,
                       call.file_location, call.drafts)]
  /\ UNCHANGED <<traverse_vars, call>>

CallMdFile ==
  /\ call.fn = "process_md_file"
  /\ ~ret.done
  /\ ret' = [done |-> TRUE,
             out |-> process_md_file(call.file, call.file_location, call.drafts)]
  /\ UNCHANGED <<traverse_vars, call>>

NextCalls ==
  \/ CallPageIndexNew
  \/ CallToml
  \/ CallYaml
  \/ CallMdFile

SpecCalls == InitCalls /\ [][NextCalls]_vars

(***************************************************************************)
(* Properties of the traversal.                                            *)
(***************************************************************************)
\* the entries that resolve to a file: the tasks of the run
Files ==
  {i \in 1..Len(entries) : DirEntry(entries[i]).ok /\ DirEntry(entries[i]).resolves}
IsMarkdown(i) == DirEntry(entries[i]).loc.extension = MARKDOWN_EXTENSION

\* how many outcomes of task i a sequence of messages holds
CountOf(msgs, i) == Cardinality({k \in 1..Len(msgs) : msgs[k].id = i})

\* task i has sent its outcome
HasSent(i) ==
  /\ i \in Files
  /\ i < next_entry
  /\ \A k \in 1..Len(queue) : queue[k] # i
  /\ \A w \in Threads : workers[w].job = i => workers[w].state = "sent"

\* C1: every outcome sent is in the channel or has been received, exactly
\* once, under every interleaving; and when traverse_files returns Ok there
\* is exactly one received outcome per file, of a markdown kind for a
\* markdown file and a PathError for any other file
C1_OneOutcomePerFile ==
  /\ \A i \in 1..Len(entries) :
       CountOf(channel, i) + CountOf(received, i) = (IF HasSent(i) THEN 1 ELSE 0)
  /\ returned = "Ok" =>
       /\ channel = <<>>
       /\ Len(received) = Cardinality(Files)
       /\ \A i \in Files :
            /\ CountOf(received, i) = 1
            /\ \A k \in 1..Len(received) :
                 received[k].id = i =>
                   IF IsMarkdown(i)
                     THEN received[k].out.kind \in MarkdownKinds
                     ELSE received[k].out.kind = "PathError"

C1_Witness ==
  /\ returned = "Ok"
  /\ \E i, j \in Files : IsMarkdown(i) /\ ~IsMarkdown(j)
  /\ Len(received) = 2
  /\ received[1].id = 2

\* C2: when traverse_files returns Ok the collection is the received
\* outcomes without the Skips, each as it was received
C2_CollectionIsReceivedWithoutSkips ==
  returned = "Ok" =>
    /\ index = SelectSeq(received, LAMBDA m : m.out.kind # "Skip")
    /\ \A k \in 1..Len(index) :
         index[k].out.kind \in {"Success", "PathError", "ParseError", "IoError"}

C2_Witness ==
  /\ returned = "Ok"
  /\ \E k \in 1..Len(received) : received[k].out.kind = "Skip"
  /\ \E k \in 1..Len(index) : index[k].out.kind = "PathError"

\* C3: traverse_files terminates, whatever the number of tasks: its own
\* sender is gone when it drains, so the drain loop ends once the last
\* worker has sent and released its clone
C3_Terminates ==
  <>(pc = "done" /\ returned # "none")

C3_Witness ==
  /\ pc = "done"
  /\ returned = "Ok"
  /\ Len(received) >= 2
  /\ senders = 0

\* C4: the call returns Err exactly when the content root does not exist,
\* and then nothing was enumerated, submitted, processed or produced; in
\* every other case the return value is Ok
C4_FatalOnlyForMissingRoot ==
  /\ returned = "Err" => ~contents_directory_exists
  /\ returned = "Ok" => contents_directory_exists
  /\ pc = "done" => returned = (IF contents_directory_exists THEN "Ok" ELSE "Err")
  /\ ~contents_directory_exists =>
       /\ next_entry = 1
       /\ queue = <<>>
       /\ \A w \in Threads : workers[w] = Idle
       /\ channel = <<>>
       /\ received = <<>>
       /\ index = <<>>

C4_Witness ==
  /\ returned = "Err"
  /\ Files # {}

\* C5: a submitted task is never cancelled, whatever the outcomes of the
\* other tasks: it stays queued, running or answered; and when the run
\* returns every task has its outcome in, the one its own file and the
\* drafts flag give
C5_FailuresAreIsolated ==
  /\ \A i \in Files :
       i < next_entry =>
         \/ \E k \in 1..Len(queue) : queue[k] = i
         \/ \E w \in Threads : workers[w].job = i
         \/ CountOf(channel, i) + CountOf(received, i) = 1
  /\ returned = "Ok" =>
       \A i \in Files :
         \E k \in 1..Len(received) :
           /\ received[k].id = i
           /\ received[k].out =
                process_file(DirEntry(entries[i]).file, DirEntry(entries[i]).loc, drafts)

C5_Witness ==
  /\ returned = "Ok"
  /\ Len(received) >= 2
  /\ received[1].out.kind \in {"PathError", "ParseError", "IoError", "Skip"}
  /\ received[2].out.kind = "Success"

(***************************************************************************)
(* Properties of PageIndex::new and of the front matter parsers.           *)
(***************************************************************************)
IsBuild == call.fn = "PageIndex::new"
IsToml == call.fn = "process_md_toml_front_matter"
IsYaml == call.fn = "process_md_yaml_front_matter"

\* the rule of the href: url, then slug, then the lowercased file stem
RelativePart(file_location) ==
  IF file_location.relative_directory_to_content = <<>>
    THEN <<>>
    ELSE <<"/">> \o file_location.relative_directory_to_content

ExpectedHref(url, slug, file_location) ==
  CASE url.some -> url.v
    [] ~url.some /\ slug.some ->
         RelativePart(file_location) \o <<"/">> \o slug.v \o <<"/">>
    [] OTHER ->
         RelativePart(file_location) \o <<"/">>
           \o ToLowercase(file_location.file_stem) \o <<"/">>

\* C6: the href of a page PageIndex::new builds is the url if there is one,
\* else relativePart/slug/ with the slug as given if there is one, else
\* relativePart/lowercase(file stem)/
C6_HrefPrecedence ==
  (ret.done /\ IsBuild /\ ret.out.kind = "Success") =>
    ret.out.page.href = ExpectedHref(call.url, call.slug, call.file_location)

C6_Witness ==
  /\ ret.done /\ IsBuild /\ ret.out.kind = "Success"
  /\ ~call.url.some
  /\ call.slug.some
  /\ ToLowercase(call.slug.v) # call.slug.v
  /\ call.file_location.relative_directory_to_content # <<>>

\* the metadata block of a document: the second to last segment of the
\* trimmed text in TOML, the second segment in YAML
MetadataBlock ==
  LET parts == Split(Trim(call.contents), IF IsYaml THEN YAML_FENCE ELSE TOML_FENCE)
  IN IF Len(parts) <= 1
       THEN None
       ELSE Some(Trim(parts[IF IsYaml THEN 2 ELSE Len(parts) - 1]))

\* the tree the metadata block parses to, if it does
Metadata ==
  IF ~MetadataBlock.some
    THEN [ok |-> FALSE, tree |-> EmptyTree]
    ELSE IF IsYaml THEN ParseYaml(MetadataBlock.v) ELSE ParseToml(MetadataBlock.v)

HasString(key) == Metadata.ok /\ Get(Metadata.tree, key).t = "str"
MarksDraft == Metadata.ok /\ Get(Metadata.tree, DRAFT) = BoolVal(TRUE)

\* C7: PageIndex::new without a title, or without a date, is a ParseError
\* and no page; and so is a document of either dialect whose metadata has
\* no title or no date, when it is not left out as a draft
C7_MissingTitleOrDateIsParseError ==
  /\ (ret.done /\ IsBuild /\ (~call.title.some \/ ~call.date.some)) =>
       ret.out.kind = "ParseError" /\ ret.out.page = NoPage
  /\ (ret.done /\ (IsToml \/ IsYaml) /\ Metadata.ok
        /\ ~(MarksDraft /\ ~call.drafts)
        /\ (~HasString(TITLE) \/ ~HasString(DATE))) =>
       ret.out.kind = "ParseError" /\ ret.out.page = NoPage

C7_Witness ==
  /\ ret.done /\ IsToml /\ Metadata.ok
  /\ ~HasString(TITLE) /\ HasString(DATE)
  /\ ret.out.reason = "Could not read title from front matter"

\* C8: every page PageIndex::new builds has a title and a date that are not
\* empty
C8_TitleAndDateNonEmpty ==
  (ret.done /\ IsBuild /\ ret.out.kind = "Success") =>
    ret.out.page.title # <<>> /\ ret.out.page.date # <<>>

\* C9: in both dialects a document whose metadata marks it draft, processed
\* with drafts left out, is a Skip, whatever its other fields are
C9_DraftIsSkippedBeforeValidation ==
  (ret.done /\ (IsToml \/ IsYaml) /\ MarksDraft /\ ~call.drafts) =>
    ret.out.kind = "Skip"

C9_Witness ==
  /\ ret.done /\ IsYaml /\ MarksDraft /\ ~call.drafts
  /\ ~HasString(TITLE) /\ ~HasString(DATE)
  /\ ret.out.kind = "Skip"

\* a YAML document with an opening fence and nothing after its metadata
UnterminatedYaml ==
  LET parts == Split(Trim(call.contents), YAML_FENCE)
  IN IsYaml /\ Len(parts) = 2 /\ parts[1] = <<>>

\* C10: a YAML document with no closing fence whose single segment is
\* metadata with a title and a date is processed successfully and the page
\* has an empty content
C10_UnterminatedYamlHasEmptyBody ==
  (ret.done /\ UnterminatedYaml /\ HasString(TITLE) /\ HasString(DATE)
     /\ ~(MarksDraft /\ ~call.drafts)) =>
    ret.out.kind = "Success" /\ ret.out.page.content = <<>>

(***************************************************************************)
(* Entries that do not resolve, and the order of the collection.           *)
(***************************************************************************)
\* the entries the walk yields that FileLocation::new cannot resolve
UnresolvedEntries ==
  {i \in 1..Len(entries) : DirEntry(entries[i]).ok /\ ~DirEntry(entries[i]).resolves}

\* C11: an entry whose location cannot be resolved has a PathError outcome
\* in the returned collection, and the run is not aborted
C11_UnresolvedEntryIsPathError ==
  /\ returned = "Err" => ~contents_directory_exists
  /\ returned = "Ok" =>
       \A i \in UnresolvedEntries :
         \E k \in 1..Len(index) :
           index[k].id = i /\ index[k].out.kind = "PathError"

\* the outcome the collection must hold for file i: none for a Skip
ExpectedOutcomes(i) ==
  LET out == process_file(DirEntry(entries[i]).file, DirEntry(entries[i]).loc, drafts)
  IN IF out.kind = "Skip" THEN {} ELSE {out}

\* C15: the collection traverse_files returns holds, for every file, exactly
\* the outcome its content and the drafts flag give (none for a Skip) and
\* nothing else, whatever the interleaving and the size of the pool; only
\* the order of the collection varies
C15_CollectionIsSameMultiset ==
  returned = "Ok" =>
    /\ \A k \in 1..Len(index) :
         index[k].id \in Files /\ index[k].out \in ExpectedOutcomes(index[k].id)
    /\ \A i \in Files : CountOf(index, i) = Cardinality(ExpectedOutcomes(i))

\* the collection is not in the order of the walk
C15_Witness ==
  /\ returned = "Ok"
  /\ Len(index) >= 2
  /\ index[1].id > index[2].id
  /\ thread_count >= 2

(***************************************************************************)
(* Properties of process_md_file and of the lists of a page.               *)
(***************************************************************************)
IsMdFile == call.fn = "process_md_file"

\* the first character of the line that holds the first character of the
\* text that is not whitespace; <<>> when the text is blank
LeadingChar(text) ==
  LET inked == {i \in 1..Len(text) : ~IsWhitespace(text[i])}
      first == CHOOSE i \in inked : \A j \in inked : i <= j
      breaks == {i \in 1..Len(text) : i < first /\ text[i] = "\n"}
      start == IF breaks = {}
                 THEN 1
                 ELSE 1 + CHOOSE i \in breaks : \A j \in breaks : j <= i
  IN IF inked = {} THEN <<>> ELSE <<text[start]>>

\* C12: process_md_file gives IoError for a file that cannot be read;
\* otherwise the first character of the first non-blank line decides: '+'
\* gives what the TOML parser gives, '-' what the YAML parser gives, and
\* anything else, or no such line, gives the ParseError of process_md_file
\* itself
C12_DialectFromFirstCharacter ==
  (ret.done /\ IsMdFile) =>
    ret.out =
      (IF ~call.file.readable
         THEN IoError("read_to_string failed")
         ELSE CASE LeadingChar(call.file.contents) = <<"+">> ->
                     process_md_toml_front_matter(call.file.contents,
                       call.file_location, call.drafts)
                [] LeadingChar(call.file.contents) = <<"-">> ->
                     process_md_yaml_front_matter(call.file.contents,
                       call.file_location, call.drafts)
                [] OTHER ->
                     ParseError("Could not determine file front matter type."))

\* a file whose fence comes after blank lines, routed to the TOML parser
C12_Witness ==
  /\ ret.done /\ IsMdFile /\ call.file.readable
  /\ call.file.contents # <<>>
  /\ Head(call.file.contents) = " "
  /\ LeadingChar(call.file.contents) = <<"+">>
  /\ ret.out.kind = "Success"

\* a TOML document with an opening fence and no closing fence
UnterminatedToml ==
  LET parts == Split(Trim(call.contents), TOML_FENCE)
  IN IsToml /\ Len(parts) = 2 /\ parts[1] = <<>>

\* the text after the opening fence is metadata with a title and a date
TextAfterFenceIsValid ==
  LET parts == Split(Trim(call.contents), TOML_FENCE)
      tree == ParseToml(Trim(parts[2]))
  IN /\ tree.ok
     /\ Get(tree.tree, TITLE).t = "str"
     /\ Get(tree.tree, DATE).t = "str"

\* C13: a TOML document with an opening fence and no closing fence is a
\* ParseError and no page, whatever follows the fence
C13_UnterminatedTomlIsParseError ==
  (ret.done /\ UnterminatedToml) =>
    ret.out.kind = "ParseError" /\ ret.out.page = NoPage

C13_Witness ==
  /\ ret.done /\ UnterminatedToml /\ TextAfterFenceIsValid
  /\ ret.out.kind = "ParseError"

\* a list of a page holds only texts that are not empty and are trimmed
CleanList(list) ==
  \A i \in 1..Len(list) : list[i] # <<>> /\ Trim(list[i]) = list[i]

\* C14: in every page either parser builds, the elements of categories,
\* series, tags and keywords are not empty and have no whitespace at
\* either end
C14_ListElementsNonEmptyTrimmed ==
  (ret.done /\ (IsToml \/ IsYaml) /\ ret.out.kind = "Success") =>
    /\ CleanList(ret.out.page.categories)
    /\ CleanList(ret.out.page.series)
    /\ CleanList(ret.out.page.tags)
    /\ CleanList(ret.out.page.keywords)

====
